---- MODULE Spec2Model ----
(***************************************************************************)
(* Model of csvpivot's error module (src/errors.rs): the CsvPivotError     *)
(* enum, its Display and Error implementations and the two From            *)
(* conversions.  Text is modelled as TLA+ strings built by concatenation;  *)
(* usize is modelled as an unsigned integer of UsizeBits bits.             *)
(***************************************************************************)
EXTENDS Integers, Sequences, FiniteSets, TLC

\* ------------------------------------------------------------------ bounds
UsizeBits == 4
NumContexts == 2

UsizeMax == 2^UsizeBits - 1
Usize == 0..UsizeMax
Contexts == 1..NumContexts

\* Messages carried by InvalidConfiguration and ParsingError.err: the empty
\* string, a string holding format placeholders, one holding a template
\* prefix, and an ordinary message.
Messages ==
    { "",
      "{}: {}",
      "Could not properly configure the aggregator: ",
      "invalid digit found in string" }

\* ------------------------------------------------- foreign (wrapped) errors
\* std::io::Error and csv::Error are opaque to this module: all it uses of
\* them is their own Display text and their own description().
IoErrors ==
    { [ty |-> "io::Error", display |-> "No such file or directory (os error 2)",
       description |-> "entity not found"],
      [ty |-> "io::Error", display |-> "Permission denied (os error 13)",
       description |-> "permission denied"] }

CsvErrors ==
    { [ty |-> "csv::Error", display |-> "CSV error: found record with 3 fields, but the previous record has 2 fields",
       description |-> "record of unequal length"],
      [ty |-> "csv::Error", display |-> "CSV parse error: invalid utf-8",
       description |-> "invalid utf-8"] }

ForeignDisplay(e) == e.display
ForeignDescription(e) == e.description

\* ------------------------------------------------------ enum CsvPivotError
CsvError(e) == [variant |-> "CsvError", inner |-> e]
InvalidConfiguration(m) == [variant |-> "InvalidConfiguration", msg |-> m]
Io(e) == [variant |-> "Io", inner |-> e]
ParsingError(n, m) == [variant |-> "ParsingError", line_num |-> n, err |-> m]

\* No error value exists (yet): the surrounding call chain has not failed.
NoError == [variant |-> "None"]

CsvPivotError ==
    {CsvError(e) : e \in CsvErrors}
    \cup {InvalidConfiguration(m) : m \in Messages}
    \cup {Io(e) : e \in IoErrors}
    \cup {ParsingError(n, m) : n \in Usize, m \in Messages}

\* ------------------------------------------------------- integer rendering
DigitChars == <<"0", "1", "2", "3", "4", "5", "6", "7", "8", "9">>

\* Display for usize: the decimal digits, most significant first, no padding.
RECURSIVE Decimal(_)
Decimal(n) ==
    IF n < 10 THEN DigitChars[n + 1]
    ELSE Decimal(n \div 10) \o DigitChars[(n % 10) + 1]

\* `line_num + 1` on usize.  With overflow checks (debug builds) an overflow
\* panics; without them (release builds) the sum wraps modulo 2^UsizeBits.
AddOneSaturating(n, checks) ==
    [panic |-> FALSE, val |-> IF n + 1 > UsizeMax THEN UsizeMax ELSE n + 1]

AddOne(n, checks) ==
    IF n + 1 > UsizeMax
    THEN IF checks THEN [panic |-> TRUE, val |-> 0]
                   ELSE [panic |-> FALSE, val |-> (n + 1) % (2^UsizeBits)]
    ELSE [panic |-> FALSE, val |-> n + 1]

\* ------------------------------------------------------------ Display::fmt
\* Evaluation of the arguments of the arm's write!: only the ParsingError arm
\* computes anything (line_num + 1), and that computation can panic.
EvalArgs(self, checks) ==
    IF self.variant = "ParsingError"
    THEN AddOne(self.line_num, checks)
    ELSE [panic |-> FALSE, val |-> 0]

\* The strings the arm hands to the formatter, in order.  write! compiles its
\* template into literal pieces and argument slots; an argument's text is
\* written as it is and never parsed as a template again.
WritesDroppingMessage(self, num) ==
    CASE self.variant = "CsvError" -> <<ForeignDisplay(self.inner)>>
      [] self.variant = "InvalidConfiguration" ->
            <<"Could not properly configure the aggregator: ", "">>
      [] self.variant = "Io" -> <<ForeignDisplay(self.inner)>>
      [] self.variant = "ParsingError" ->
            <<"Could not parse record ", Decimal(num), ": ", self.err>>

WritesPrefixingWrapped(self, num) ==
    CASE self.variant = "CsvError" ->
            <<"CSV error: ", ForeignDisplay(self.inner)>>
      [] self.variant = "InvalidConfiguration" ->
            <<"Could not properly configure the aggregator: ", self.msg>>
      [] self.variant = "Io" ->
            <<"IO error: ", ForeignDisplay(self.inner)>>
      [] self.variant = "ParsingError" ->
            <<"Could not parse record ", Decimal(num), ": ", self.err>>

Writes(self, num) ==
    CASE self.variant = "CsvError" -> <<ForeignDisplay(self.inner)>>
      [] self.variant = "InvalidConfiguration" ->
            <<"Could not properly configure the aggregator: ", self.msg>>
      [] self.variant = "Io" -> <<ForeignDisplay(self.inner)>>
      [] self.variant = "ParsingError" ->
            <<"Could not parse record ", Decimal(num), ": ", self.err>>

RECURSIVE Concat(_)
Concat(ws) == IF ws = <<>> THEN "" ELSE Head(ws) \o Concat(Tail(ws))

\* fmt run to completion into a sink that accepts every write (to_string).
RenderText(self, checks) ==
    LET a == EvalArgs(self, checks)
    IN  IF a.panic THEN [status |-> "panic", text |-> ""]
        ELSE [status |-> "ok", text |-> Concat(Writes(self, a.val))]

\* ------------------------------------------------------ Error::description
DescriptionFixedForWrapped(self) ==
    CASE self.variant = "CsvError" -> "csv error"
      [] self.variant = "Io" -> "io error"
      [] self.variant = "InvalidConfiguration" -> "could not configure the aggregator"
      [] self.variant = "ParsingError" -> "failed to parse values column"

DescriptionWithPayload(self) ==
    CASE self.variant = "CsvError" -> ForeignDescription(self.inner)
      [] self.variant = "Io" -> ForeignDescription(self.inner)
      [] self.variant = "InvalidConfiguration" ->
            "could not configure the aggregator: " \o self.msg
      [] self.variant = "ParsingError" ->
            "failed to parse values column " \o Decimal(self.line_num)

DescriptionText(self) ==
    CASE self.variant = "CsvError" -> ForeignDescription(self.inner)
      [] self.variant = "Io" -> ForeignDescription(self.inner)
      [] self.variant = "InvalidConfiguration" -> "could not configure the aggregator"
      [] self.variant = "ParsingError" -> "failed to parse values column"

\* ------------------------------------------------------------ conversions
FromIoAsCsvError(e) == CsvError(e)

FromIo(e) == Io(e)

FromCsv(e) == CsvError(e)

\* =================================================================== state
VARIABLES
    err,             \* the CsvPivotError value in existence, or NoError
    constructed,     \* history: err as it was when it was constructed
    origin,          \* history: how err came to be, and from which foreign error
    overflowChecks,  \* build setting: are integer overflow checks compiled in
    ctx              \* per execution context: its call in progress and result

vars == <<err, constructed, origin, overflowChecks, ctx>>

IdleCtx ==
    [pc |-> "idle", op |-> "none", writes |-> <<>>, idx |-> 0,
     buf |-> "", status |-> "none"]

Init ==
    /\ err = NoError
    /\ constructed = NoError
    /\ origin = [via |-> "none"]
    /\ overflowChecks \in BOOLEAN
    /\ ctx = [c \in Contexts |-> IdleCtx]

\* A value is built (and an earlier one dropped) only while no context holds
\* a borrow of it or a result derived from it.
NoBorrow == \A c \in Contexts : ctx[c].pc = "idle"

\* Direct use of one of the four enum constructors.
Construct(v) ==
    /\ NoBorrow
    /\ err' = v
    /\ constructed' = v
    /\ origin' = [via |-> "direct"]
    /\ UNCHANGED <<overflowChecks, ctx>>

\* From<io::Error>::from, as `?` invokes it.
ConvertIo(e) ==
    /\ NoBorrow
    /\ err' = FromIo(e)
    /\ constructed' = FromIo(e)
    /\ origin' = [via |-> "io", arg |-> e]
    /\ UNCHANGED <<overflowChecks, ctx>>

\* From<csv::Error>::from, as `?` invokes it.
ConvertCsv(e) ==
    /\ NoBorrow
    /\ err' = FromCsv(e)
    /\ constructed' = FromCsv(e)
    /\ origin' = [via |-> "csv", arg |-> e]
    /\ UNCHANGED <<overflowChecks, ctx>>

\* Entry of fmt(&self, f): the match selects the arm and the arm's arguments
\* are evaluated; nothing has been written yet.
FmtBeginBumpingLineNum(c) ==
    /\ err # NoError
    /\ ctx[c].pc = "idle"
    /\ LET a == EvalArgs(err, overflowChecks)
       IN  ctx' = [ctx EXCEPT ![c] =
                IF a.panic
                THEN [IdleCtx EXCEPT !.pc = "done", !.op = "fmt", !.status = "panic"]
                ELSE [IdleCtx EXCEPT !.pc = "fmt", !.op = "fmt",
                                     !.writes = Writes(err, a.val), !.idx = 1]]
    /\ err' = IF err.variant = "ParsingError"
              THEN [err EXCEPT !.line_num = (@ + 1) % (2^UsizeBits)]
              ELSE err
    /\ UNCHANGED <<constructed, origin, overflowChecks>>

FmtBegin(c) ==
    /\ err # NoError
    /\ ctx[c].pc = "idle"
    /\ LET a == EvalArgs(err, overflowChecks)
       IN  ctx' = [ctx EXCEPT ![c] =
                IF a.panic
                THEN [IdleCtx EXCEPT !.pc = "done", !.op = "fmt", !.status = "panic"]
                ELSE [IdleCtx EXCEPT !.pc = "fmt", !.op = "fmt",
                                     !.writes = Writes(err, a.val), !.idx = 1]]
    /\ UNCHANGED <<err, constructed, origin, overflowChecks>>

\* One write of fmt into the context's own sink.  The sink may refuse it, and
\* fmt then returns that error at once.
FmtWrite(c) ==
    /\ ctx[c].pc = "fmt"
    /\ \E accepted \in BOOLEAN :
          ctx' = [ctx EXCEPT ![c] =
              IF ~accepted
              THEN [@ EXCEPT !.pc = "done", !.status = "fmt_error"]
              ELSE IF @.idx = Len(@.writes)
                   THEN [@ EXCEPT !.pc = "done", !.status = "ok",
                                  !.buf = @ \o ctx[c].writes[ctx[c].idx]]
                   ELSE [@ EXCEPT !.idx = @ + 1,
                                  !.buf = @ \o ctx[c].writes[ctx[c].idx]]]
    /\ UNCHANGED <<err, constructed, origin, overflowChecks>>

\* description(&self): a single match returning a borrowed string.
DescriptionTakingMessage(c) ==
    /\ err # NoError
    /\ ctx[c].pc = "idle"
    /\ ctx' = [ctx EXCEPT ![c] =
          [IdleCtx EXCEPT !.pc = "done", !.op = "description", !.status = "ok",
                          !.buf = DescriptionText(err)]]
    /\ err' = IF err.variant = "ParsingError" THEN [err EXCEPT !.err = ""]
              ELSE IF err.variant = "InvalidConfiguration" THEN [err EXCEPT !.msg = ""]
              ELSE err
    /\ UNCHANGED <<constructed, origin, overflowChecks>>

Description(c) ==
    /\ err # NoError
    /\ ctx[c].pc = "idle"
    /\ ctx' = [ctx EXCEPT ![c] =
          [IdleCtx EXCEPT !.pc = "done", !.op = "description", !.status = "ok",
                          !.buf = DescriptionText(err)]]
    /\ UNCHANGED <<err, constructed, origin, overflowChecks>>

\* The caller is done with the result of its call.
Release(c) ==
    /\ ctx[c].pc = "done"
    /\ ctx' = [ctx EXCEPT ![c] = IdleCtx]
    /\ UNCHANGED <<err, constructed, origin, overflowChecks>>

Next ==
    \/ \E v \in CsvPivotError : Construct(v)
    \/ \E e \in IoErrors : ConvertIo(e)
    \/ \E e \in CsvErrors : ConvertCsv(e)
    \/ \E c \in Contexts : FmtBegin(c)
    \/ \E c \in Contexts : FmtWrite(c)
    \/ \E c \in Contexts : Description(c)
    \/ \E c \in Contexts : Release(c)

Spec == Init /\ [][Next]_vars

TypeOK ==
    /\ err \in CsvPivotError \cup {NoError}
    /\ overflowChecks \in BOOLEAN
    /\ \A c \in Contexts :
          /\ ctx[c].pc \in {"idle", "fmt", "done"}
          /\ ctx[c].status \in {"none", "ok", "fmt_error", "panic"}

\* ============================================================== properties
DoneCall(c, op) == ctx[c].pc = "done" /\ ctx[c].op = op

Wrapping == {"CsvError", "Io"}

\* C1: a ParsingError{line_num: n, err: m}, for every n of the unsigned range
\* including the largest, renders as "Could not parse record " followed by
\* the decimal of n+1, ": " and m; the number shown is never 0 nor wrapped.
C1_ParsingErrorRendersOneIndexed ==
    \A c \in Contexts :
        (/\ DoneCall(c, "fmt")
         /\ err.variant = "ParsingError"
         /\ ctx[c].status # "fmt_error")
        => /\ ctx[c].status = "ok"
           /\ ctx[c].buf = "Could not parse record "
                               \o Decimal(err.line_num + 1) \o ": " \o err.err

\* C2: InvalidConfiguration(m) renders as the fixed prefix followed by m
\* unchanged, whatever m holds (empty, placeholders, the prefix itself).
C2_InvalidConfigurationRendersPrefixThenMessage ==
    \A c \in Contexts :
        (/\ DoneCall(c, "fmt")
         /\ err.variant = "InvalidConfiguration"
         /\ ctx[c].status # "fmt_error")
        => /\ ctx[c].status = "ok"
           /\ ctx[c].buf = "Could not properly configure the aggregator: " \o err.msg

C2_Witness ==
    \E c \in Contexts :
        /\ DoneCall(c, "fmt")
        /\ ctx[c].status = "ok"
        /\ err = InvalidConfiguration("{}: {}")

\* C3: rendering CsvError(e) or Io(e) gives exactly e's own rendering, with
\* nothing added before or after it.
C3_WrappedRenderingIsForwarded ==
    \A c \in Contexts :
        (/\ DoneCall(c, "fmt")
         /\ err.variant \in Wrapping
         /\ ctx[c].status # "fmt_error")
        => /\ ctx[c].status = "ok"
           /\ ctx[c].buf = ForeignDisplay(err.inner)

C3_Witness ==
    \E c \in Contexts :
        /\ DoneCall(c, "fmt")
        /\ ctx[c].status = "ok"
        /\ err.variant = "Io"

\* C4: the short description of ParsingError and of InvalidConfiguration is
\* the variant's fixed string, whatever the payload.
C4_DescriptionIgnoresPayload ==
    \A c \in Contexts :
        DoneCall(c, "description") =>
            /\ err.variant = "ParsingError"
                  => ctx[c].buf = "failed to parse values column"
            /\ err.variant = "InvalidConfiguration"
                  => ctx[c].buf = "could not configure the aggregator"

C4_Witness ==
    \E c \in Contexts :
        /\ DoneCall(c, "description")
        /\ err.variant = "ParsingError"
        /\ err.line_num = UsizeMax
        /\ err.err # ""

\* C5: converting an I/O error e gives Io(e) and converting a CSV error e
\* gives CsvError(e); the converted value renders and describes itself as e
\* does, and is never of another variant.
C5_ConversionIsVariantExact ==
    /\ origin.via = "io" =>
          /\ err.variant = "Io"
          /\ err.inner = origin.arg
    /\ origin.via = "csv" =>
          /\ err.variant = "CsvError"
          /\ err.inner = origin.arg
    /\ origin.via \in {"io", "csv"} =>
          /\ RenderText(err, overflowChecks)
                = [status |-> "ok", text |-> ForeignDisplay(origin.arg)]
          /\ DescriptionText(err) = ForeignDescription(origin.arg)
          /\ \A c \in Contexts :
                /\ (DoneCall(c, "fmt") /\ ctx[c].status = "ok")
                      => ctx[c].buf = ForeignDisplay(origin.arg)
                /\ DoneCall(c, "description")
                      => ctx[c].buf = ForeignDescription(origin.arg)

C5_Witness ==
    /\ origin.via = "io"
    /\ \E c \in Contexts : DoneCall(c, "fmt") /\ ctx[c].status = "ok"
    /\ \E c \in Contexts : DoneCall(c, "description")

\* C6: rendering and describing never abort: every call ends with a result,
\* and rendering reports an error only when the sink refused a write.
C6_RenderingNeverAborts ==
    \A c \in Contexts :
        ctx[c].pc = "done" => ctx[c].status \in {"ok", "fmt_error"}

\* C7: the short description of CsvError(e) and of Io(e) is e's own short
\* description.
C7_WrappedDescriptionIsForwarded ==
    \A c \in Contexts :
        (DoneCall(c, "description") /\ err.variant \in Wrapping)
            => ctx[c].buf = ForeignDescription(err.inner)

C7_Witness ==
    \E c \in Contexts :
        /\ DoneCall(c, "description")
        /\ err.variant = "CsvError"

\* C8: render and description calls leave the value as it was constructed
\* (the stored line_num in particular), and every completed render of it
\* gives the same text.
C8_CallsAreReadOnly ==
    /\ err = constructed
    /\ \A c1, c2 \in Contexts :
          (/\ DoneCall(c1, "fmt") /\ ctx[c1].status = "ok"
           /\ DoneCall(c2, "fmt") /\ ctx[c2].status = "ok")
          => ctx[c1].buf = ctx[c2].buf

C8_Witness ==
    \E c1, c2 \in Contexts :
        /\ c1 # c2
        /\ DoneCall(c1, "fmt") /\ ctx[c1].status = "ok"
        /\ DoneCall(c2, "fmt") /\ ctx[c2].status = "ok"
        /\ err.variant = "ParsingError"

\* C9: whatever the interleaving of the contexts' steps, each context gets
\* what a render (or description) running alone on the value gets, and the
\* value stays the one that was constructed while any call is under way.
C9_ConcurrentCallsMatchSequential ==
    \A c \in Contexts :
        /\ ctx[c].pc # "idle" => err = constructed
        /\ (DoneCall(c, "fmt") /\ ctx[c].status # "fmt_error")
              => /\ ctx[c].status = RenderText(constructed, overflowChecks).status
                 /\ ctx[c].buf = RenderText(constructed, overflowChecks).text
        /\ DoneCall(c, "description")
              => ctx[c].buf = DescriptionText(constructed)

C9_Witness ==
    \E c1, c2 \in Contexts :
        /\ DoneCall(c1, "description")
        /\ DoneCall(c2, "fmt") /\ ctx[c2].status = "ok"
        /\ \E c3 \in Contexts : ctx[c3].pc = "fmt" \/ c3 = c1
        /\ err.variant = "ParsingError"
        /\ err.err # ""

\* C10: for a fixed err string, ParsingErrors with different line_num render
\* to different texts, and no InvalidConfiguration renders to the text of a
\* ParsingError.
C10_RenderedTextIdentifiesFailure ==
    \A c \in Contexts :
        (DoneCall(c, "fmt") /\ ctx[c].status = "ok") =>
            /\ err.variant = "ParsingError" =>
                  /\ \A n \in Usize \ {err.line_num} :
                        LET r == RenderText(ParsingError(n, err.err), overflowChecks)
                        IN  r.status = "ok" => r.text # ctx[c].buf
                  /\ \A m \in Messages :
                        RenderText(InvalidConfiguration(m), overflowChecks).text
                            # ctx[c].buf
            /\ err.variant = "InvalidConfiguration" =>
                  \A n \in Usize, m \in Messages :
                      LET r == RenderText(ParsingError(n, m), overflowChecks)
                      IN  r.status = "ok" => r.text # ctx[c].buf

C10_Witness ==
    \E c \in Contexts :
        /\ DoneCall(c, "fmt") /\ ctx[c].status = "ok"
        /\ err.variant = "ParsingError"
        /\ err.line_num = UsizeMax
====
